---- MODULE Spec2Model ----
(***************************************************************************)
(* kti: walks a directory tree, detects each regular file's type from its  *)
(* leading bytes (get_correct_extension), compares it with the current     *)
(* extension (different_extensions) and renames the file on a mismatch.    *)
(*                                                                         *)
(* Strings are sequences of one-character strings, so that str::contains,  *)
(* Path::extension and PathBuf::set_extension are computed on characters. *)
(* Bytes are integers in 0..255.                                           *)
(*                                                                         *)
(* The walked tree is one directory of regular files and empty            *)
(* sub-directories, so --max-depth and --follow-links change nothing and   *)
(* are left out of the flags.                                              *)
(***************************************************************************)
EXTENDS Integers, Sequences, FiniteSets, TLC

VARIABLES
    root,           \* what fs::exists(&root_path) finds: "exists", "missing", "unknown"
    root_name,      \* file name of the root path, as WalkDir reports it at depth 0
    dir_writable,   \* whether the OS lets entries of the directory be renamed
    fs,             \* the directory: file name -> entry
    kti,            \* the parsed command line flags
    pc,             \* position of main: "start", "root", "walk", "done"
    pending,        \* names the directory iterator has still to yield
    diff_counter,   \* main's diff_counter
    stdout,         \* lines printed with println!, oldest first
    stderr,         \* lines printed with eprintln!, oldest first
    last,           \* what the latest loop iteration did
    before,         \* the directory as it was when the latest iteration began
    start_fs,       \* the directory as it was when the current run began
    run,            \* number of the current run of the program
    renames_ok,     \* per run: it was no dry run and every rename it attempted succeeded
    file_bytes,     \* detector alone: content of the file given to it
    extension,      \* detector alone: its result
    file_name,      \* policy alone: name of the file
    result,         \* policy alone: the outcome of get_correct_extension
    colored,        \* policy alone: the --color flag
    current,        \* policy alone: current_extension
    detected,       \* policy alone: detected_extension
    verdict         \* policy alone: different_extensions(current, detected)

vars == << root, root_name, dir_writable, fs, kti, pc, pending, diff_counter,
           stdout, stderr, last, before, start_fs, run, renames_ok,
           file_bytes, extension, file_name, result, colored, current, detected, verdict >>

run_vars == << root, root_name, dir_writable, fs, kti, pc, pending, diff_counter,
               stdout, stderr, last, before, start_fs, run, renames_ok >>

detector_vars == << file_bytes, extension >>

policy_vars == << file_name, result, colored, current, detected, verdict >>

\* ------------------------------------------------------------------ bounds

\* longest file head the detector is given, apart from one longer than the buffer
MaxBufLen == 13

\* most entries in the directory
MaxFiles == 2

\* most runs of the program over the same tree
MaxRuns == 2

\* let mut buffer = [0; 32]
BufSize == 32

\* ----------------------------------------------------------------- strings

Min(a, b) == IF a < b THEN a ELSE b

Zeros(n) == [i \in 1..n |-> 0]

Fill(n) == [i \in 1..n |-> 255]

Take(s, n) == SubSeq(s, 1, Min(n, Len(s)))

\* str::contains(pat)
contains(s, pat) ==
    \E i \in 0..(Len(s) - Len(pat)) : SubSeq(s, i + 1, i + Len(pat)) = pat

\* str::starts_with(pat)
starts_with(s, pat) == Len(s) >= Len(pat) /\ SubSeq(s, 1, Len(pat)) = pat

\* owo_colors: Display of text.yellow() is ESC[33m text ESC[39m
yellow(text) == << "ESC", "[", "3", "3", "m" >> \o text \o << "ESC", "[", "3", "9", "m" >>

\* Option<T>
None == [some |-> FALSE, val |-> << >>]

Some(x) == [some |-> TRUE, val |-> x]

NoExtension == << "N", "o", " ", "e", "x", "t", "e", "n", "s", "i", "o", "n" >>

NotDetected == << "N", "o", "t", " ", "d", "e", "t", "e", "c", "t", "e", "d" >>

\* Display of std::io::Error for an OS error: "<strerror> (os error <code>)"
PermissionDenied ==
    << "P", "e", "r", "m", "i", "s", "s", "i", "o", "n", " ",
       "d", "e", "n", "i", "e", "d", " ",
       "(", "o", "s", " ", "e", "r", "r", "o", "r", " ", "1", "3", ")" >>

NoSuchFile ==
    << "N", "o", " ", "s", "u", "c", "h", " ", "f", "i", "l", "e", " ", "o", "r", " ",
       "d", "i", "r", "e", "c", "t", "o", "r", "y", " ",
       "(", "o", "s", " ", "e", "r", "r", "o", "r", " ", "2", ")" >>

ErrorTexts == { PermissionDenied, NoSuchFile }

gif == << "g", "i", "f" >>
mp3 == << "m", "p", "3" >>
png == << "p", "n", "g" >>
pdf == << "p", "d", "f" >>
ogg == << "o", "g", "g" >>
mkv == << "m", "k", "v" >>
flac == << "f", "l", "a", "c" >>
jpg == << "j", "p", "g" >>
webp == << "w", "e", "b", "p" >>
wav == << "w", "a", "v" >>
mov == << "m", "o", "v" >>
mp4 == << "m", "p", "4" >>
jpeg == << "j", "p", "e", "g" >>

\* every extension an arm of the match can return
Detectable == { gif, mp3, png, pdf, ogg, mkv, flac, jpg, webp, wav, mov, mp4 }

\* ---------------------------------------------------------------- detector

RIFF == << 82, 73, 70, 70 >>
ftyp == << 102, 116, 121, 112 >>
WEBP == << 87, 69, 66, 80 >>
WAVE == << 87, 65, 86, 69 >>
Mp4Brands ==
    { << 97, 118, 99, 49 >>,     \* avc1
      << 105, 115, 111, 109 >>,  \* isom
      << 109, 109, 112, 52 >>,   \* mmp4
      << 109, 112, 52, 49 >>,    \* mp41
      << 109, 112, 52, 50 >>,    \* mp42
      << 109, 112, 55, 49 >>,    \* mp71
      << 109, 115, 110, 118 >>,  \* msnv
      << 77, 52, 86, 32 >> }     \* "M4V "
QtBrand == << 113, 116, 32, 32 >>  \* "qt  "

\* a slice pattern [b1, ..., bk, ..] matches a slice of at least k elements that
\* starts with b1..bk
SlicePatternLoose(buf, pat) ==
    \A i \in 1..Min(Len(buf), Len(pat)) : buf[i] = pat[i]

SlicePattern(buf, pat) ==
    /\ Len(buf) >= Len(pat)
    /\ \A i \in 1..Len(pat) : buf[i] = pat[i]

\* &buf[a..b], bounds as in Rust (0-based, end exclusive)
Slice(buf, a, b) == SubSeq(buf, a + 1, b)

\* the arm  buf if buf.len() >= 12 && &buf[0..4] == b"RIFF"
RiffArm(buf) ==
    IF Slice(buf, 8, 12) = WEBP THEN Some(webp)
    ELSE IF Slice(buf, 8, 12) = WAVE THEN Some(wav)
    ELSE None

\* the arm  buf if buf.len() >= 12 && &buf[4..8] == b"ftyp"
FtypArm(buf) ==
    IF Slice(buf, 8, 12) = QtBrand THEN Some(mov)
    ELSE IF Slice(buf, 8, 12) \in Mp4Brands THEN Some(mp4)
    ELSE None

\* the arms in another order: the container arms tried before jpg, ftyp before RIFF
match_buffer_reordered(buf) ==
    IF SlicePattern(buf, << 71, 73, 70, 56, 55, 97 >>)
       \/ SlicePattern(buf, << 71, 73, 70, 56, 57, 97 >>) THEN Some(gif)
    ELSE IF \/ SlicePattern(buf, << 255, 251 >>)
            \/ SlicePattern(buf, << 255, 243 >>)
            \/ SlicePattern(buf, << 255, 242 >>)
            \/ SlicePattern(buf, << 73, 68, 51 >>) THEN Some(mp3)
    ELSE IF SlicePattern(buf, << 137, 80, 78, 71, 13, 10, 26, 10 >>) THEN Some(png)
    ELSE IF SlicePattern(buf, << 37, 80, 68, 70, 45 >>) THEN Some(pdf)
    ELSE IF SlicePattern(buf, << 79, 103, 103, 83 >>) THEN Some(ogg)
    ELSE IF SlicePattern(buf, << 26, 69, 223, 163 >>) THEN Some(mkv)
    ELSE IF SlicePattern(buf, << 102, 76, 97, 67 >>) THEN Some(flac)
    ELSE IF Len(buf) >= 12 /\ Slice(buf, 4, 8) = ftyp THEN FtypArm(buf)
    ELSE IF Len(buf) >= 12 /\ Slice(buf, 0, 4) = RIFF THEN RiffArm(buf)
    ELSE IF SlicePattern(buf, << 255, 216, 255 >>) THEN Some(jpg)
    ELSE None

\* the match of get_correct_extension on &buffer[0..min(bytes_read, 32)]
match_buffer(buf) ==
    IF SlicePattern(buf, << 71, 73, 70, 56, 55, 97 >>)
       \/ SlicePattern(buf, << 71, 73, 70, 56, 57, 97 >>) THEN Some(gif)
    ELSE IF \/ SlicePattern(buf, << 255, 251 >>)
            \/ SlicePattern(buf, << 255, 243 >>)
            \/ SlicePattern(buf, << 255, 242 >>)
            \/ SlicePattern(buf, << 73, 68, 51 >>) THEN Some(mp3)
    ELSE IF SlicePattern(buf, << 137, 80, 78, 71, 13, 10, 26, 10 >>) THEN Some(png)
    ELSE IF SlicePattern(buf, << 37, 80, 68, 70, 45 >>) THEN Some(pdf)
    ELSE IF SlicePattern(buf, << 79, 103, 103, 83 >>) THEN Some(ogg)
    ELSE IF SlicePattern(buf, << 26, 69, 223, 163 >>) THEN Some(mkv)
    ELSE IF SlicePattern(buf, << 102, 76, 97, 67 >>) THEN Some(flac)
    ELSE IF SlicePattern(buf, << 255, 216, 255 >>) THEN Some(jpg)
    ELSE IF Len(buf) >= 12 /\ Slice(buf, 0, 4) = RIFF THEN RiffArm(buf)
    ELSE IF Len(buf) >= 12 /\ Slice(buf, 4, 8) = ftyp THEN FtypArm(buf)
    ELSE None

\* file.read(&mut buffer): the first bytes of the file, at most the buffer's size
read_buffer(bytes) == Take(bytes, BufSize)

\* get_correct_extension on a file: Err(text) when it cannot be opened or read,
\* Ok(Some(ext)) or Ok(None) otherwise
get_correct_extension(file) ==
    IF file.err.some
    THEN [ok |-> FALSE, ext |-> None, err |-> file.err.val]
    ELSE [ok |-> TRUE, ext |-> match_buffer(read_buffer(file.bytes)), err |-> << >>]

\* ------------------------------------------------------------------- paths

Dots(name) == { i \in 1..Len(name) : name[i] = "." }

LastDot(name) == CHOOSE i \in Dots(name) : \A j \in Dots(name) : j <= i

FirstDot(name) == CHOOSE i \in Dots(name) : \A j \in Dots(name) : i <= j

\* the extension taken from the first dot on, not from the last
path_extension_first_dot(name) ==
    IF name = << ".", "." >> \/ Dots(name) = {} \/ LastDot(name) = 1 THEN None
    ELSE Some(SubSeq(name, FirstDot(name) + 1, Len(name)))

\* Path::extension of a file name: none without a dot, none when the only dot
\* leads the name, else the part after the last dot
path_extension(name) ==
    IF name = << ".", "." >> \/ Dots(name) = {} \/ LastDot(name) = 1 THEN None
    ELSE Some(SubSeq(name, LastDot(name) + 1, Len(name)))

\* Path::file_stem
file_stem(name) ==
    IF name = << ".", "." >> \/ Dots(name) = {} \/ LastDot(name) = 1 THEN name
    ELSE SubSeq(name, 1, LastDot(name) - 1)

\* PathBuf::set_extension: the stem, then a dot and the extension unless it is empty
set_extension(name, ext) ==
    IF ext = << >> THEN file_stem(name) ELSE file_stem(name) \o << "." >> \o ext

\* main, lines 89-98
current_extension(name, color) ==
    IF path_extension(name).some THEN path_extension(name).val
    ELSE IF color THEN yellow(NoExtension) ELSE NoExtension

\* is_hidden
is_hidden(name) == starts_with(name, << "." >>)

\* filter_entries
filter_entries(name, options) == ~(~options.show_hidden /\ is_hidden(name))

\* ------------------------------------------------------------------ policy

\* different_extensions without the test for the sentinels
different_extensions_nosentinel(cur, det) ==
    IF cur = jpeg /\ det = jpg THEN FALSE
    ELSE IF cur = det THEN FALSE
    ELSE TRUE

different_extensions(cur, det) ==
    IF contains(det, << "N", "o" >>) \/ contains(det, << "E", "r", "r" >>) THEN FALSE
    ELSE IF cur = jpeg /\ det = jpg THEN FALSE
    ELSE IF cur = det THEN FALSE
    ELSE TRUE

\* main, lines 100-110: the detection result as the string the policy compares
detected_string(res, color) ==
    IF ~res.ok THEN res.err
    ELSE IF ~res.ext.some THEN (IF color THEN yellow(NotDetected) ELSE NotDetected)
    ELSE res.ext.val

\* --------------------------------------------------------------- the run

EmptyDir == [n \in {} |-> None]

\* a regular file: the bytes it starts with, and the error text of opening or
\* reading it when that fails
File(bytes, err) == [kind |-> "file", bytes |-> bytes, err |-> err]

Directory == [kind |-> "dir", bytes |-> << >>, err |-> None]

Line(text) == [line |-> text, n |-> 0]

NoIteration ==
    [kind |-> "none", name |-> << >>, current |-> << >>, detected |-> << >>,
     result |-> [ok |-> TRUE, ext |-> None, err |-> << >>], verdict |-> FALSE,
     counted |-> FALSE, attempted |-> FALSE, target |-> << >>, renamed |-> FALSE]

\* print_report and print_colored_report: whether the four lines are printed
report_printed(options, cur, det) ==
    /\ ~options.silent
    /\ \/ ~options.only_different /\ ~different_extensions(cur, det)
       \/ ~options.only_different /\ different_extensions(cur, det)
       \/ options.only_different /\ different_extensions(cur, det)

\* the guard of the rename without the test of --dry-run
should_rename_always(options, cur, det) == different_extensions(cur, det)

\* main, line 137
should_rename(options, cur, det) == ~options.dry_run /\ different_extensions(cur, det)

\* fs::rename(from, to) in a directory: fails when the directory cannot be
\* written or the target is a directory; replaces a file that is at the target
rename_fails(dir, writable, from, to) ==
    \/ ~writable
    \/ to \in DOMAIN dir /\ dir[to].kind = "dir"

renamed_dir(dir, from, to) ==
    [n \in (DOMAIN dir \ { from }) \cup { to } |-> IF n = to THEN dir[from] ELSE dir[n]]

\* main, lines 56-62 and 153-155: fs::exists fails, nothing else is done
ExistsFailed ==
    /\ pc = "start"
    /\ root = "unknown"
    /\ stdout' = Append(stdout, Line("Failed reading directory"))
    /\ pc' = "done"
    /\ UNCHANGED << root, root_name, dir_writable, fs, kti, pending, diff_counter,
                    stderr, last, before, start_fs, run, renames_ok,
                    detector_vars, policy_vars >>

\* main, lines 56-75: fs::exists succeeds; a missing path is reported and the
\* walk is set up all the same
Start ==
    /\ pc = "start"
    /\ root # "unknown"
    /\ stderr' = IF root = "missing" THEN Append(stderr, Line("Path does not exist."))
                 ELSE stderr
    /\ diff_counter' = 0
    /\ pending' = {}
    /\ pc' = "root"
    /\ UNCHANGED << root, root_name, dir_writable, fs, kti, stdout, last, before,
                    start_fs, run, renames_ok, detector_vars, policy_vars >>

\* the first item of the walk is an error when the root cannot be read (lines 77-83)
RootError ==
    /\ pc = "root"
    /\ root = "missing"
    /\ stderr' = Append(stderr, Line("Error reading entry"))
    /\ last' = [NoIteration EXCEPT !.kind = "error"]
    /\ before' = fs
    /\ pc' = "walk"
    /\ UNCHANGED << root, root_name, dir_writable, fs, kti, pending, diff_counter,
                    stdout, start_fs, run, renames_ok, detector_vars, policy_vars >>

\* filter_entry drops the root and does not descend into it (line 76)
RootFiltered ==
    /\ pc = "root"
    /\ root = "exists"
    /\ ~filter_entries(root_name, kti)
    /\ pc' = "walk"
    /\ UNCHANGED << root, root_name, dir_writable, fs, kti, pending, diff_counter,
                    stdout, stderr, last, before, start_fs, run, renames_ok,
                    detector_vars, policy_vars >>

\* the root is yielded, is no file (lines 85-87), and its entries are to come
RootEntered ==
    /\ pc = "root"
    /\ root = "exists"
    /\ filter_entries(root_name, kti)
    /\ last' = [NoIteration EXCEPT !.kind = "dir", !.name = root_name]
    /\ before' = fs
    /\ pending' = DOMAIN fs
    /\ pc' = "walk"
    /\ UNCHANGED << root, root_name, dir_writable, fs, kti, diff_counter,
                    stdout, stderr, start_fs, run, renames_ok,
                    detector_vars, policy_vars >>

\* filter_entry drops a hidden entry (line 76)
SkipHidden(n) ==
    /\ pc = "walk"
    /\ n \in pending
    /\ ~filter_entries(n, kti)
    /\ pending' = pending \ { n }
    /\ UNCHANGED << root, root_name, dir_writable, fs, kti, pc, diff_counter,
                    stdout, stderr, last, before, start_fs, run, renames_ok,
                    detector_vars, policy_vars >>

\* an entry that is no regular file (lines 85-87); the directories are empty
SkipDirectory(n) ==
    /\ pc = "walk"
    /\ n \in pending
    /\ filter_entries(n, kti)
    /\ fs[n].kind = "dir"
    /\ last' = [NoIteration EXCEPT !.kind = "dir", !.name = n]
    /\ before' = fs
    /\ pending' = pending \ { n }
    /\ UNCHANGED << root, root_name, dir_writable, fs, kti, pc, diff_counter,
                    stdout, stderr, start_fs, run, renames_ok,
                    detector_vars, policy_vars >>

\* one iteration of the loop on a regular file (lines 89-150). After a rename the
\* directory iterator, reading on, may or may not yield the new name
ProcessFile(n) ==
    /\ pc = "walk"
    /\ n \in pending
    /\ filter_entries(n, kti)
    /\ fs[n].kind = "file"
    /\ LET cur == current_extension(n, kti.colored)
           res == get_correct_extension(fs[n])
           det == detected_string(res, kti.colored)
           diff == different_extensions(cur, det)
           attempt == should_rename(kti, cur, det)
           target == set_extension(n, det)
           moved == attempt /\ ~rename_fails(fs, dir_writable, n, target)
           reports == IF report_printed(kti, cur, det) THEN << Line("report") >> ELSE << >>
       IN /\ diff_counter' = IF diff THEN diff_counter + 1 ELSE diff_counter
          /\ stdout' = stdout \o reports \o (IF moved THEN << Line("renamed") >> ELSE << >>)
          /\ stderr' = IF attempt /\ ~moved
                       THEN stderr \o << Line("Could not rename file."), Line("rename error") >>
                       ELSE stderr
          /\ fs' = IF moved THEN renamed_dir(fs, n, target) ELSE fs
          /\ \E revisit \in (IF moved THEN BOOLEAN ELSE { FALSE }) :
                pending' = (pending \ { n }) \cup (IF revisit THEN { target } ELSE {})
          /\ last' = [kind |-> "file", name |-> n, current |-> cur, detected |-> det,
                      result |-> res, verdict |-> diff, counted |-> diff,
                      attempted |-> attempt, target |-> target, renamed |-> moved]
          /\ renames_ok' = [renames_ok EXCEPT ![run] = @ /\ (attempt => moved)]
    /\ before' = fs
    /\ UNCHANGED << root, root_name, dir_writable, kti, pc, start_fs, run,
                    detector_vars, policy_vars >>

\* the loop is over: the tally (line 152)
Finish ==
    /\ pc = "walk"
    /\ pending = {}
    /\ stdout' = Append(stdout, [line |-> "Differences found", n |-> diff_counter])
    /\ pc' = "done"
    /\ UNCHANGED << root, root_name, dir_writable, fs, kti, pending, diff_counter,
                    stderr, last, before, start_fs, run, renames_ok,
                    detector_vars, policy_vars >>

\* the program is run again with the same command line on the tree as it is now
Rerun ==
    /\ pc = "done"
    /\ run < MaxRuns
    /\ run' = run + 1
    /\ renames_ok' = Append(renames_ok, ~kti.dry_run)
    /\ start_fs' = fs
    /\ before' = fs
    /\ last' = NoIteration
    /\ pending' = {}
    /\ diff_counter' = 0
    /\ stdout' = << >>
    /\ stderr' = << >>
    /\ pc' = "start"
    /\ UNCHANGED << root, root_name, dir_writable, fs, kti, detector_vars, policy_vars >>

JpegHead == << 255, 216, 255, 224 >>
PngHead == << 137, 80, 78, 71, 13, 10, 26, 10, 0, 0, 0, 13 >>
Garbage == << 0, 1, 2, 3 >>
WebpFile == RIFF \o Zeros(4) \o WEBP \o Fill(BufSize - 11)

Name_a_b_png == << "a", ".", "b", ".", "p", "n", "g" >>
Name_a_b_jpg == << "a", ".", "b", ".", "j", "p", "g" >>
Name_a_jpeg == << "a", ".", "j", "p", "e", "g" >>
Name_a == << "a" >>
Name_b_txt == << "b", ".", "t", "x", "t" >>
Name_h_png == << ".", "h", ".", "p", "n", "g" >>

\* the entries a tree is made of
Catalogue ==
    { [name |-> Name_a_b_png, entry |-> File(JpegHead, None)],
      [name |-> Name_a_b_jpg, entry |-> File(PngHead, None)],
      [name |-> Name_a_b_jpg, entry |-> Directory],
      [name |-> Name_a_jpeg, entry |-> File(JpegHead, None)],
      [name |-> Name_a, entry |-> File(WebpFile, None)],
      [name |-> Name_b_txt, entry |-> File(Garbage, None)],
      [name |-> Name_b_txt, entry |-> File(PngHead, Some(PermissionDenied))],
      [name |-> Name_b_txt, entry |-> File(Garbage, Some(NoSuchFile))],
      [name |-> Name_h_png, entry |-> File(JpegHead, None)] }

Names(T) == { e.name : e \in T }

Tree(T) == [n \in Names(T) |-> (CHOOSE e \in T : e.name = n).entry]

\* the directories of at most MaxFiles entries, no name twice
Trees ==
    { Tree(T) : T \in { U \in SUBSET Catalogue :
                          Cardinality(U) <= MaxFiles /\ Cardinality(Names(U)) = Cardinality(U) } }

\* the command lines: --silent and --only-diff together print what --silent prints
Flags ==
    { f \in [dry_run : BOOLEAN, colored : BOOLEAN, show_hidden : BOOLEAN,
             silent : BOOLEAN, only_different : BOOLEAN] :
        f.silent => ~f.only_different }

Init ==
    /\ root \in { "exists", "missing", "unknown" }
    /\ root_name \in { << "." >>, << "d" >> }
    /\ fs \in (IF root = "exists" THEN Trees ELSE { EmptyDir })
    /\ dir_writable \in BOOLEAN
    /\ kti \in Flags
    /\ pc = "start"
    /\ pending = {}
    /\ diff_counter = 0
    /\ stdout = << >>
    /\ stderr = << >>
    /\ last = NoIteration
    /\ before = fs
    /\ start_fs = fs
    /\ run = 1
    /\ renames_ok = << ~kti.dry_run >>
    /\ file_bytes = << >>
    /\ extension = None
    /\ file_name = << >>
    /\ result = [ok |-> TRUE, ext |-> None, err |-> << >>]
    /\ colored = FALSE
    /\ current = << >>
    /\ detected = << >>
    /\ verdict = FALSE

Next ==
    \/ ExistsFailed
    \/ Start
    \/ RootError
    \/ RootFiltered
    \/ RootEntered
    \/ \E n \in pending : SkipHidden(n)
    \/ \E n \in pending : SkipDirectory(n)
    \/ \E n \in pending : ProcessFile(n)
    \/ Finish

\* one run of the program
Spec == Init /\ [][Next]_vars

InitRerun ==
    /\ Init
    /\ root = "exists"
    /\ root_name = << "d" >>
    /\ kti.silent

NextRerun ==
    \/ Start
    \/ RootEntered
    \/ \E n \in pending : SkipHidden(n)
    \/ \E n \in pending : SkipDirectory(n)
    \/ \E n \in pending : ProcessFile(n)
    \/ Finish
    \/ Rerun

\* runs of the program one after the other on a directory that exists
SpecRerun == InitRerun /\ [][NextRerun]_vars

\* ------------------------------------------------------- claims on the run

TallyLine(k) == [line |-> "Differences found", n |-> k]

TallyPrinted == \E i \in 1..Len(stdout) : stdout[i].line = "Differences found"

\* C3: a file whose header cannot be opened or read is never renamed and never
\* counted as a difference
C3_ReadErrorNoAction ==
    (last.kind = "file" /\ ~last.result.ok) =>
        /\ ~last.attempted
        /\ ~last.counted
        /\ fs = before

\* C3 for the read errors whose text holds "No" or "Err"
C3_ReadErrorCaughtBySubstring ==
    (last.kind = "file" /\ ~last.result.ok
     /\ (contains(last.result.err, << "N", "o" >>)
         \/ contains(last.result.err, << "E", "r", "r" >>))) =>
        /\ ~last.attempted
        /\ ~last.counted
        /\ fs = before

SampleCurrents ==
    Detectable
    \cup { jpeg, << "J", "P", "G" >>, << "t", "x", "t" >>, << >>, PermissionDenied,
           NoExtension, yellow(NoExtension), NotDetected, yellow(NotDetected) }

\* C4: a file that matches no signature is 'not different' whatever its current
\* extension, with the plain and with the colored 'Not detected'; it is never
\* renamed and never counted
C4_UnknownNoAction ==
    (last.kind = "file" /\ last.result.ok /\ ~last.result.ext.some) =>
        /\ last.detected = (IF kti.colored THEN yellow(NotDetected) ELSE NotDetected)
        /\ ~last.verdict
        /\ \A x \in SampleCurrents :
              /\ ~different_extensions(x, last.detected)
              /\ ~different_extensions(x, yellow(last.detected))
        /\ ~last.attempted
        /\ ~last.counted
        /\ fs = before

C4_Witness ==
    /\ last.kind = "file"
    /\ last.name = Name_b_txt
    /\ last.result.ok /\ ~last.result.ext.some
    /\ kti.colored /\ ~kti.dry_run
    /\ last.detected = yellow(NotDetected)

Collision ==
    /\ last.target \in DOMAIN before
    /\ before[last.target].kind = "file"
    /\ last.target # last.name

\* C7: a rename that fails, as it does when the target exists as another file, is
\* reported on the error channel, leaves every file unmodified, is not retried, and
\* the walk goes on to the tally
C7_RenameFailure ==
    /\ (last.kind = "file" /\ last.attempted /\ Collision) =>
          /\ ~last.renamed
          /\ fs = before
    /\ (last.kind = "file" /\ last.attempted /\ ~last.renamed) =>
          /\ fs = before
          /\ Len(stderr) >= 2
          /\ stderr[Len(stderr) - 1] = Line("Could not rename file.")
          /\ last.name \notin pending
    /\ (pc = "done" /\ root = "exists") => stdout[Len(stdout)] = TallyLine(diff_counter)

\* C7 without the collision: what holds of the renames that do fail
C7_WhenRenameFails ==
    /\ (last.kind = "file" /\ last.attempted /\ ~last.renamed) =>
          /\ fs = before
          /\ Len(stderr) >= 2
          /\ stderr[Len(stderr) - 1] = Line("Could not rename file.")
          /\ last.name \notin pending
    /\ (pc = "done" /\ root = "exists") => stdout[Len(stdout)] = TallyLine(diff_counter)

\* C8: a root path that does not exist aborts the run: no walk, no file inspected
\* or renamed, no tally; every other error lets the run reach the tally
C8_MissingRootAborts ==
    /\ root = "missing" =>
          /\ last.kind = "none"
          /\ \A i \in 1..Len(stderr) : stderr[i] # Line("Error reading entry")
          /\ ~TallyPrinted
          /\ fs = start_fs
    /\ (pc = "done" /\ root = "exists") => stdout[Len(stdout)] = TallyLine(diff_counter)

\* the files the walk of a run visits
Visited(n) ==
    /\ root = "exists"
    /\ filter_entries(root_name, kti)
    /\ filter_entries(n, kti)
    /\ start_fs[n].kind = "file"

\* the files of the tree the run started on whose verdict is 'different'
DifferentFiles ==
    { n \in DOMAIN start_fs :
        /\ Visited(n)
        /\ different_extensions(
               current_extension(n, kti.colored),
               detected_string(get_correct_extension(start_fs[n]), kti.colored)) }

\* C9: a rename is attempted exactly when the verdict is 'different' and --dry-run
\* is off, to the same path with the detected extension; with --dry-run no file
\* is ever changed and the tally still counts the files whose verdict is true
C9_RenameIffDifferent ==
    /\ last.kind = "file" =>
          /\ last.verdict = different_extensions(last.current, last.detected)
          /\ last.attempted = (last.verdict /\ ~kti.dry_run)
          /\ last.counted = last.verdict
          /\ last.attempted =>
                /\ file_stem(last.target) = file_stem(last.name)
                /\ path_extension(last.target) = Some(last.detected)
          /\ last.renamed =>
                /\ last.attempted
                /\ last.name \notin DOMAIN fs
                /\ last.target \in DOMAIN fs
                /\ fs[last.target] = before[last.name]
          /\ ~last.renamed => fs = before
    /\ kti.dry_run => fs = start_fs
    /\ (kti.dry_run /\ pc = "done" /\ root # "unknown") =>
          stdout[Len(stdout)] = TallyLine(Cardinality(DifferentFiles))

C9_WitnessDryRun ==
    /\ kti.dry_run
    /\ pc = "done"
    /\ diff_counter = 2
    /\ Name_a_b_png \in DOMAIN fs

C9_Witness ==
    /\ ~kti.dry_run
    /\ last.kind = "file"
    /\ last.name = Name_a_b_png
    /\ last.renamed
    /\ last.target = Name_a_b_jpg

\* C10: a file renamed to its detected extension is 'not different' when it is
\* evaluated again, and a run after a run whose renames all succeeded renames
\* nothing and reports 0 differences
C10_RenameIdempotent ==
    /\ (last.kind = "file" /\ last.renamed) =>
          ~different_extensions(
               current_extension(last.target, kti.colored),
               detected_string(get_correct_extension(fs[last.target]), kti.colored))
    /\ (last.kind = "file" /\ last.name \in DOMAIN fs /\ last.name \in DOMAIN start_fs
        /\ fs[last.name] # start_fs[last.name]) => ~last.verdict
    /\ (run > 1 /\ renames_ok[run - 1]) =>
          /\ diff_counter = 0
          /\ ~last.attempted
          /\ fs = start_fs
          /\ pc = "done" => stdout[Len(stdout)] = TallyLine(0)

C10_Witness ==
    /\ run = 2
    /\ renames_ok[1]
    /\ pc = "done"
    /\ last.kind = "file"
    /\ last.name = Name_a_b_jpg
    /\ fs[Name_a_b_jpg] = File(JpegHead, None)
    /\ Name_a_b_png \notin DOMAIN fs

\* --------------------------------------------------- the detector on its own

\* the literal prefixes of the signature table of the specification, in its order
PrefixRules ==
    << [pat |-> << 71, 73, 70, 56, 55, 97 >>, ext |-> gif],
       [pat |-> << 71, 73, 70, 56, 57, 97 >>, ext |-> gif],
       [pat |-> << 255, 251 >>, ext |-> mp3],
       [pat |-> << 255, 243 >>, ext |-> mp3],
       [pat |-> << 255, 242 >>, ext |-> mp3],
       [pat |-> << 73, 68, 51 >>, ext |-> mp3],
       [pat |-> << 137, 80, 78, 71, 13, 10, 26, 10 >>, ext |-> png],
       [pat |-> << 37, 80, 68, 70, 45 >>, ext |-> pdf],
       [pat |-> << 79, 103, 103, 83 >>, ext |-> ogg],
       [pat |-> << 26, 69, 223, 163 >>, ext |-> mkv],
       [pat |-> << 102, 76, 97, 67 >>, ext |-> flac],
       [pat |-> << 255, 216, 255 >>, ext |-> jpg] >>

\* the secondary lookups of rules 9 and 10 of the table
RiffTags == { [tag |-> WEBP, ext |-> webp], [tag |-> WAVE, ext |-> wav] }

FtypTags ==
    { [tag |-> QtBrand, ext |-> mov] } \cup { [tag |-> b, ext |-> mp4] : b \in Mp4Brands }

Lookup(tags, tag) ==
    IF \E t \in tags : t.tag = tag
    THEN Some((CHOOSE t \in tags : t.tag = tag).ext)
    ELSE None

PrefixHits(buf) == { i \in 1..Len(PrefixRules) : starts_with(buf, PrefixRules[i].pat) }

First(S) == CHOOSE i \in S : \A j \in S : i <= j

RiffOuter(buf) == Len(buf) >= 12 /\ SubSeq(buf, 1, 4) = RIFF

FtypOuter(buf) == Len(buf) >= 12 /\ SubSeq(buf, 5, 8) = ftyp

\* the table read top to bottom, first match wins
TableDetect(buf) ==
    IF PrefixHits(buf) # {} THEN Some(PrefixRules[First(PrefixHits(buf))].ext)
    ELSE IF RiffOuter(buf) THEN Lookup(RiffTags, SubSeq(buf, 9, 12))
    ELSE IF FtypOuter(buf) THEN Lookup(FtypTags, SubSeq(buf, 9, 12))
    ELSE None

\* number of leading bytes the matching rule of the table compares (0: no rule)
MatchedLen(buf) ==
    IF PrefixHits(buf) # {} THEN Len(PrefixRules[First(PrefixHits(buf))].pat)
    ELSE IF RiffOuter(buf) \/ FtypOuter(buf) THEN 12
    ELSE 0

NearMiss(pat) == [pat EXCEPT ![Len(pat)] = 0]

Heads ==
    { PrefixRules[i].pat : i \in 1..Len(PrefixRules) }
    \cup { NearMiss(PrefixRules[i].pat) : i \in 1..Len(PrefixRules) }
    \cup { RIFF \o mid \o tag :
             mid \in { Zeros(4), ftyp },
             tag \in { WEBP, WAVE, NearMiss(WEBP), QtBrand, << 105, 115, 111, 109 >> } }
    \cup { pre \o ftyp \o brand :
             pre \in { << 0, 0, 0, 32 >>, << 255, 216, 255, 224 >>, << 79, 103, 103, 83 >> },
             brand \in Mp4Brands \cup { QtBrand, WEBP, Zeros(4) } }
    \cup { << 0, 1, 2, 3 >> }

FileLengths == (0..MaxBufLen) \cup { BufSize + 2 }

\* the file contents the detector is tried on
Buffers ==
    { Take(h \o t, n) : h \in Heads, t \in { Zeros(BufSize + 2), Fill(BufSize + 2) },
                        n \in FileLengths }

InitRest ==
    /\ root = "exists"
    /\ root_name = << "d" >>
    /\ dir_writable = TRUE
    /\ fs = EmptyDir
    /\ kti = [dry_run |-> FALSE, colored |-> FALSE, show_hidden |-> FALSE,
              silent |-> FALSE, only_different |-> FALSE]
    /\ pending = {}
    /\ diff_counter = 0
    /\ stdout = << >>
    /\ stderr = << >>
    /\ last = NoIteration
    /\ before = EmptyDir
    /\ start_fs = EmptyDir
    /\ run = 1
    /\ renames_ok = << TRUE >>

InitDetect ==
    /\ InitRest
    /\ pc = "detect"
    /\ file_bytes \in Buffers
    /\ extension = None
    /\ file_name = << >>
    /\ result = [ok |-> TRUE, ext |-> None, err |-> << >>]
    /\ colored = FALSE
    /\ current = << >>
    /\ detected = << >>
    /\ verdict = FALSE

\* get_correct_extension on a readable file
Detect ==
    /\ pc = "detect"
    /\ extension' = get_correct_extension([bytes |-> file_bytes, err |-> None]).ext
    /\ pc' = "detected"
    /\ UNCHANGED << root, root_name, dir_writable, fs, kti, pending, diff_counter,
                    stdout, stderr, last, before, start_fs, run, renames_ok,
                    file_bytes, policy_vars >>

NextDetect == Detect

SpecDetect == InitDetect /\ [][NextDetect]_vars

\* C1: the detector returns what the ordered signature table gives, first match
\* wins; the bytes after the matched pattern do not change the result; a RIFF
\* container with an unknown tag is Unknown though bytes 4-8 are ftyp with a brand
C1_TableFirstMatch ==
    pc = "detected" =>
        LET buf == read_buffer(file_bytes)
            cut == Take(buf, MatchedLen(buf))
        IN /\ extension = TableDetect(buf)
           /\ MatchedLen(buf) > 0 =>
                /\ match_buffer(cut) = extension
                /\ match_buffer(cut \o << 1, 2, 3 >>) = extension
           /\ (RiffOuter(buf) /\ FtypOuter(buf)
               /\ SubSeq(buf, 9, 12) \notin { WEBP, WAVE }) => extension = None

C1_Witness ==
    /\ pc = "detected"
    /\ read_buffer(file_bytes) = RIFF \o ftyp \o << 105, 115, 111, 109 >> \o << 0 >>
    /\ extension = None

\* an extension is justified by a rule whose whole byte range lies in the buffer
Justified(buf, ext) ==
    \/ \E i \in 1..Len(PrefixRules) :
          /\ PrefixRules[i].ext = ext
          /\ Len(buf) >= Len(PrefixRules[i].pat)
          /\ \A k \in 1..Len(PrefixRules[i].pat) : buf[k] = PrefixRules[i].pat[k]
    \/ ext \in { webp, wav, mov, mp4 } /\ Len(buf) >= 12

\* C5: a rule never matches a buffer shorter than the bytes it compares: every
\* reported extension comes from a rule whose byte range lies inside the bytes read
C5_ShortBufferNeverMatches ==
    pc = "detected" =>
        LET buf == read_buffer(file_bytes)
        IN /\ extension.some => Justified(buf, extension.val)
           /\ Len(buf) < 12 => extension \notin { Some(webp), Some(wav), Some(mov), Some(mp4) }
           /\ buf \in { << 255, 216 >>, Take(RIFF \o Zeros(4) \o WEBP, 11) } => extension = None

C5_Witness ==
    /\ pc = "detected"
    /\ file_bytes = Take(RIFF \o Zeros(4) \o WEBP, 11)
    /\ extension = None

\* ----------------------------------------------------- the policy on its own

Stems == { << "a" >>, << ".", "h" >> }

OtherExtensions ==
    { jpeg, << "J", "P", "G" >>, << "t", "x", "t" >>, << >>, << "N", "o" >>, PermissionDenied }

\* file names: no extension, or a stem, a dot and an extension
PolicyNames ==
    Stems \cup { st \o << "." >> \o e : st \in Stems, e \in Detectable \cup OtherExtensions }

\* the outcomes of get_correct_extension
DetectionResults ==
    { [ok |-> TRUE, ext |-> Some(e), err |-> << >>] : e \in Detectable }
    \cup { [ok |-> TRUE, ext |-> None, err |-> << >>] }
    \cup { [ok |-> FALSE, ext |-> None, err |-> t] : t \in ErrorTexts }

InitPolicy ==
    /\ InitRest
    /\ pc = "compare"
    /\ file_bytes = << >>
    /\ extension = None
    /\ file_name \in PolicyNames
    /\ result \in DetectionResults
    /\ colored \in BOOLEAN
    /\ current = << >>
    /\ detected = << >>
    /\ verdict = FALSE

\* main, lines 89-116: both strings and the verdict on them
Compare ==
    /\ pc = "compare"
    /\ current' = current_extension(file_name, colored)
    /\ detected' = detected_string(result, colored)
    /\ verdict' = different_extensions(current', detected')
    /\ pc' = "compared"
    /\ UNCHANGED << root, root_name, dir_writable, fs, kti, pending, diff_counter,
                    stdout, stderr, last, before, start_fs, run, renames_ok,
                    detector_vars, file_name, result, colored >>

NextPolicy == Compare

SpecPolicy == InitPolicy /\ [][NextPolicy]_vars

\* the rules of the mismatch policy as the specification words them
PolicyRules(cur, det, res) ==
    IF ~res.ok \/ ~res.ext.some THEN FALSE
    ELSE IF cur = jpeg /\ det = jpg THEN FALSE
    ELSE IF cur = det THEN FALSE
    ELSE TRUE

\* C2: different_extensions applies the rules in order: false for a 'not detected'
\* or 'read error' representation, else false for jpeg against jpg, else false for
\* equal strings, else true
C2_PolicyRules ==
    pc = "compared" => verdict = PolicyRules(current, detected, result)

\* C2 apart from read errors: the rules hold whenever the file could be read, and
\* x against x is never different, jpg against jpeg and JPG against jpg are
C2_RulesWhenReadable ==
    pc = "compared" =>
        /\ result.ok => verdict = PolicyRules(current, detected, result)
        /\ ~different_extensions(current, current)
        /\ ~different_extensions(detected, detected)
        /\ ~different_extensions(jpeg, jpg) /\ different_extensions(jpg, jpeg)
        /\ different_extensions(<< "J", "P", "G" >>, jpg)

\* C6: the 'No extension' sentinel equals no detector value and not the 'Not detected'
\* sentinel; a file without extension is different exactly when detection succeeds
C6_NoExtension ==
    (pc = "compared" /\ ~path_extension(file_name).some) =>
        /\ current \in { NoExtension, yellow(NoExtension) }
        /\ current \notin Detectable \cup { NotDetected, yellow(NotDetected) }
        /\ verdict = (result.ok /\ result.ext.some)

\* C6 apart from read errors
C6_NoExtensionWhenReadable ==
    (pc = "compared" /\ ~path_extension(file_name).some) =>
        /\ current \in { NoExtension, yellow(NoExtension) }
        /\ current \notin Detectable \cup { NotDetected, yellow(NotDetected) }
        /\ result.ok => verdict = result.ext.some

====
